---- MODULE Spec2Model ----
(***************************************************************************)
(* Model of the path planners of road-analysis: the grid A* planner        *)
(* (src/planners/astar.py) and the Dynamic Window planner                  *)
(* (src/planners/dwa.py), and of the frame loop of the simulator           *)
(* (src/simulation/pygame_simulator.py).                                   *)
(***************************************************************************)
EXTENDS Integers, Sequences, FiniteSets, TLC

(***************************************************************************)
(* Bounds of the model.                                                    *)
(***************************************************************************)
width == 3
height == 3
MaxObstacles == 3
MaxIterations == 3
MaxDwaObstacles == 1

VARIABLES
    obstacles,     \* AStar.obstacles: the obstacle coordinates handed to __init__
    constructed,   \* TRUE when AStar.__init__ returned, FALSE when it raised IndexError
    grid,          \* AStar.grid: grid[y][x] = 1 marks an obstacle
    query,         \* last is_valid_position query: <<x, y, answer>>, or <<>>
    a_pc,          \* position inside AStar.find_path
    a_start,       \* find_path: start
    a_goal,        \* find_path: goal
    open_set,      \* find_path: open_set
    came_from,     \* find_path: came_from
    g_score,       \* find_path: g_score
    f_score,       \* find_path: f_score
    a_ret,         \* find_path: "running", "Path" or "None"
    a_path,        \* find_path: the returned path (<<>> unless a_ret = "Path")
    expansions,    \* number of cells removed from open_set and expanded so far
    d_obstacles,   \* DWAPlanner.obstacles
    d_start,       \* DWAPlanner.find_path: start = (x, y, yaw)
    d_goal,        \* DWAPlanner.find_path: goal
    max_iterations,\* DWAPlanner.find_path: max_iterations
    d_pc,          \* position inside DWAPlanner.find_path
    d_x,           \* find_path: the state x = [x, y, yaw, v, omega]
    d_path,        \* find_path: path
    d_iter,        \* find_path: control cycles started so far
    d_dw,          \* dynamic window of the last control cycle
    d_u,           \* (v, yaw_rate) returned by calc_final_input in the last cycle
    d_prev,        \* (v, omega) of the state before the last cycle
    d_cost,        \* obstacle cost and total cost of the candidate chosen last
    t_pc,          \* position of a call of DWAPlanner.calc_trajectory
    t_x,           \* calc_trajectory: the state x handed in (a copy, line 132)
    t_u,           \* calc_trajectory: the candidate (v, yaw_rate)
    t_trajectory,  \* calc_trajectory: the returned trajectory
    s_pc,          \* position inside PygameSimulator.run
    path,          \* PygameSimulator.path: a sequence of cells, <<>> for None
    current_path_index, \* PygameSimulator.current_path_index
    frame_count,   \* PygameSimulator.frame_count
    paused,        \* PygameSimulator.paused
    car_position,  \* PygameSimulator.car_position
    key_presses    \* TRUE once the user has pressed the space key

avars == <<obstacles, constructed, grid, query, a_pc, a_start, a_goal, open_set,
           came_from, g_score, f_score, a_ret, a_path, expansions>>

dvars == <<d_obstacles, d_start, d_goal, max_iterations, d_pc, d_x, d_path, d_iter, d_dw,
           d_u, d_prev, d_cost>>

tvars == <<t_pc, t_x, t_u, t_trajectory>>

svars == <<s_pc, path, current_path_index, frame_count, paused, car_position,
           key_presses>>

vars == <<avars, dvars, tvars, svars>>

(***************************************************************************)
(* Helpers.                                                                *)
(***************************************************************************)
Abs(n) == IF n < 0 THEN -n ELSE n

\* the element of a one-element set (binds e to a computed value)
Only(S) == CHOOSE e \in S : TRUE

Reverse(s) == [i \in 1..Len(s) |-> s[Len(s) + 1 - i]]

Cells == (0..(width - 1)) \X (0..(height - 1))

\* float('inf'): larger than every score and cost of the model
Infinity == 2000000000

(***************************************************************************)
(* AStar.__init__                                                          *)
(***************************************************************************)
\* numpy indexing of an axis of length n: indices -n .. n-1 are accepted,
\* a negative index counts from the end, anything else raises IndexError
NpInRange(i, n) == -n <= i /\ i < n

NpIndex(i, n) == IF i < 0 THEN i + n ELSE i

\* self.grid = np.zeros((height, width))
ZeroGrid == [y \in 0..(height - 1) |-> [x \in 0..(width - 1) |-> 0]]

\* for x, y in obstacles: self.grid[y][x] = 1
InitRaises(obs) == \E o \in obs : ~NpInRange(o[2], height) \/ ~NpInRange(o[1], width)

InitGrid(obs) ==
    [y \in 0..(height - 1) |-> [x \in 0..(width - 1) |->
        IF \E o \in obs : NpIndex(o[2], height) = y /\ NpIndex(o[1], width) = x
        THEN 1 ELSE 0]]

(***************************************************************************)
(* AStar.is_valid_position, get_neighbors, heuristic                       *)
(***************************************************************************)
is_valid_position(x, y) ==
    0 <= x /\ x < width /\ 0 <= y /\ y < height /\ grid[y][x] = 0

\* faulty variant of directions: the moves also include a diagonal
directionsDiagonal == << <<0, 1>>, <<1, 0>>, <<0, -1>>, <<-1, 0>>, <<1, 1>> >>

directions == << <<0, 1>>, <<1, 0>>, <<0, -1>>, <<-1, 0>> >>

get_neighbors(x, y) ==
    LET cand == [i \in 1..Len(directions) |-> <<x + directions[i][1], y + directions[i][2]>>]
    IN  SelectSeq(cand, LAMBDA c : is_valid_position(c[1], c[2]))

\* faulty variant of heuristic: squared Euclidean distance, which overestimates
heuristicSquared(a, b) ==
    (a[1] - b[1]) * (a[1] - b[1]) + (a[2] - b[2]) * (a[2] - b[2])

heuristic(a, b) == Abs(a[1] - b[1]) + Abs(a[2] - b[2])

(***************************************************************************)
(* AStar.find_path                                                         *)
(***************************************************************************)
\* line 35: not is_valid_position(*start) or not is_valid_position(*goal)
\* faulty variant of EndpointRejected: rejects only when both endpoints are invalid
EndpointRejectedBoth(s, g) ==
    ~is_valid_position(s[1], s[2]) /\ ~is_valid_position(g[1], g[2])

EndpointRejected(s, g) ==
    ~is_valid_position(s[1], s[2]) \/ ~is_valid_position(g[1], g[2])

\* f_score.get(x, float('inf'))
FGet(f, c) == IF c \in DOMAIN f THEN f[c] ELSE Infinity

\* line 45: the members of open_set that min() may return; which of several
\* members of minimal f_score it returns depends on the set's iteration order
MinCandidates(os, f) == {c \in os : \A d \in os : FGet(f, c) <= FGet(f, d)}

\* line 59: neighbor not in g_score or tentative_g_score < g_score[neighbor]
\* faulty variant of Improves: an equally long route also counts as an improvement
ImprovesOrEqual(g, nb, tentative) == nb \notin DOMAIN g \/ tentative <= g[nb]

Improves(g, nb, tentative) == nb \notin DOMAIN g \/ tentative < g[nb]

\* lines 57-64: the loop over the neighbours of current, in list order
RECURSIVE Relax(_, _, _, _)
Relax(nbs, i, current, st) ==
    IF i > Len(nbs) THEN st
    ELSE LET nb == nbs[i]
             tentative == st.g[current] + 1
         IN  IF Improves(st.g, nb, tentative)
             THEN Relax(nbs, i + 1, current,
                        [cf |-> (nb :> current) @@ st.cf,
                         g  |-> (nb :> tentative) @@ st.g,
                         f  |-> (nb :> (tentative + heuristic(nb, a_goal))) @@ st.f,
                         os |-> st.os \cup {nb}])
             ELSE Relax(nbs, i + 1, current, st)

\* lines 47-52: follow the back-pointers, append start, reverse
RECURSIVE WalkBack(_, _, _)
WalkBack(current, cf, acc) ==
    IF current \in DOMAIN cf
    THEN WalkBack(cf[current], cf, Append(acc, current))
    ELSE acc

ReconstructPath(current, cf, s) == Reverse(Append(WalkBack(current, cf, <<>>), s))

EmptyMap == [c \in {} |-> 0]

\* lines 35-37
FindPathReject ==
    /\ a_pc = "call"
    /\ constructed
    /\ EndpointRejected(a_start, a_goal)
    /\ a_pc' = "done"
    /\ a_ret' = "None"
    /\ UNCHANGED <<obstacles, constructed, grid, query, a_start, a_goal, open_set,
                   came_from, g_score, f_score, a_path, expansions>>
    /\ UNCHANGED <<dvars, tvars, svars>>

\* lines 39-42
FindPathInit ==
    /\ a_pc = "call"
    /\ constructed
    /\ ~EndpointRejected(a_start, a_goal)
    /\ a_pc' = "search"
    /\ open_set' = {a_start}
    /\ came_from' = EmptyMap
    /\ g_score' = (a_start :> 0)
    /\ f_score' = (a_start :> heuristic(a_start, a_goal))
    /\ UNCHANGED <<obstacles, constructed, grid, query, a_start, a_goal, a_ret,
                   a_path, expansions>>
    /\ UNCHANGED <<dvars, tvars, svars>>

\* lines 44-54: the selected cell is the goal
ReturnPath ==
    /\ a_pc = "search"
    /\ open_set # {}
    /\ \E current \in MinCandidates(open_set, f_score) :
        /\ current = a_goal
        /\ a_path' = ReconstructPath(current, came_from, a_start)
    /\ a_ret' = "Path"
    /\ a_pc' = "done"
    /\ UNCHANGED <<obstacles, constructed, grid, query, a_start, a_goal, open_set,
                   came_from, g_score, f_score, expansions>>
    /\ UNCHANGED <<dvars, tvars, svars>>

\* lines 44-46, 56-64: the selected cell is expanded
Expand ==
    /\ a_pc = "search"
    /\ open_set # {}
    /\ \E current \in MinCandidates(open_set, f_score) :
        /\ current # a_goal
        /\ LET st == Relax(get_neighbors(current[1], current[2]), 1, current,
                           [cf |-> came_from, g |-> g_score, f |-> f_score,
                            os |-> open_set \ {current}])
           IN  /\ came_from' = st.cf
               /\ g_score' = st.g
               /\ f_score' = st.f
               /\ open_set' = st.os
    /\ expansions' = expansions + 1
    /\ UNCHANGED <<obstacles, constructed, grid, query, a_pc, a_start, a_goal,
                   a_ret, a_path>>
    /\ UNCHANGED <<dvars, tvars, svars>>

\* lines 44, 66-67: the frontier is empty
ReturnNotFound ==
    /\ a_pc = "search"
    /\ open_set = {}
    /\ a_pc' = "done"
    /\ a_ret' = "None"
    /\ UNCHANGED <<obstacles, constructed, grid, query, a_start, a_goal, open_set,
                   came_from, g_score, f_score, a_path, expansions>>
    /\ UNCHANGED <<dvars, tvars, svars>>

(***************************************************************************)
(* DWAPlanner (src/planners/dwa.py) in fixed-point arithmetic.             *)
(*   time       one tick is dt = 0.1 s                                     *)
(*   position   1e-6 m; the distances of the costs and of the tolerance    *)
(*              test are taken in 1e-3 m                                   *)
(*   v          1e-2 m/s, which is v_resolution and 1e-3 m per tick        *)
(*   yaw        0.01 degree                                                *)
(*   yaw rate   0.1 degree/s, which is yaw_rate_resolution and 0.01 degree *)
(*              per tick                                                   *)
(*   costs      1e-3, the gains in hundredths                              *)
(* The rounding of the double arithmetic is modelled for the time counter  *)
(* of calc_trajectory only.                                                *)
(***************************************************************************)
max_speed == 100
min_speed == -50
max_yaw_rate == 400
max_accel == 2
max_dyaw_rate == 40
v_resolution == 1
yaw_rate_resolution == 1
dt == 1
to_goal_cost_gain == 15
speed_cost_gain == 100
obstacle_cost_gain == 100

\* line 175: the tolerance 0.5, in 1e-3 m
Tolerance == 500

\* lines 14-15: the planner is built as DWAPlanner(10, 10, obstacles)
map_width == 10

map_height == 10

\* line 151: max_iterations: int = 1000
DefaultMaxIterations == 1000

\* the outcome of 1.0 / 0.0
ZeroDivisionError == -1

Max(a, b) == IF a >= b THEN a ELSE b

Min(a, b) == IF a <= b THEN a ELSE b

(***************************************************************************)
(* Doubles of the time counter: a non-negative double below 4 is the pair  *)
(* <<hi, lo>> standing for (hi * 2^28 + lo) * 2^-56.                       *)
(***************************************************************************)
Limb == 268435456

\* self.dt = 0.1 and self.predict_time = 3.0 as doubles
dt_double == <<26843545, 161061274>>

predict_time == <<805306368, 0>>

\* the spacing of the doubles around a value with high limb hi:
\* 2^-56 below 1/8, doubling with each power of two
RECURSIVE UlpFrom(_, _, _)
UlpFrom(hi, u, threshold) ==
    IF hi >= threshold THEN UlpFrom(hi, 2 * u, 2 * threshold) ELSE u

Ulp(hi) == UlpFrom(hi, 1, 33554432)

\* a + b rounded to the nearest double, ties to the even mantissa
FloatAdd(a, b) ==
    LET lo == (a[2] + b[2]) % Limb
        hi == a[1] + b[1] + ((a[2] + b[2]) \div Limb)
        u  == Ulp(hi)
        q  == lo \div u
        r  == lo % u
        up == 2 * r > u \/ (2 * r = u /\ q % 2 = 1)
        rl == (IF up THEN q + 1 ELSE q) * u
    IN  <<hi + (rl \div Limb), rl % Limb>>

FloatLeq(a, b) == a[1] < b[1] \/ (a[1] = b[1] /\ a[2] <= b[2])

(***************************************************************************)
(* math.sin, math.cos, math.sqrt                                           *)
(***************************************************************************)
\* 1000 * sin of an angle of 0 .. 180 degrees, the angle in 0.01 degree
\* (Bhaskara's rational approximation: exact at 0, 30, 90, 150 and 180
\* degrees, within 0.003 of the sine elsewhere)
SinHalfTurn(a) ==
    LET p == a * (18000 - a) IN (4 * p) \div ((405000000 - p) \div 1000)

Sin1000(yaw) ==
    LET a == yaw % 36000
    IN  IF a <= 18000 THEN SinHalfTurn(a) ELSE -SinHalfTurn(a - 18000)

Cos1000(yaw) == Sin1000(yaw + 9000)

RECURSIVE SqrtSearch(_, _, _)
SqrtSearch(n, lo, hi) ==
    IF lo >= hi THEN lo
    ELSE LET mid == (lo + hi + 1) \div 2
         IN  IF mid * mid <= n THEN SqrtSearch(n, mid, hi)
             ELSE SqrtSearch(n, lo, mid - 1)

\* floor of the square root
ISqrt(n) == SqrtSearch(n, 0, 46340)

\* squared distance, in 1e-3 m, between a position (1e-6 m) and a point (1e-3 m)
Dist2(pos, pt) ==
    LET dx == pt[1] - (pos[1] \div 1000)
        dy == pt[2] - (pos[2] \div 1000)
    IN  dx * dx + dy * dy

(***************************************************************************)
(* DWAPlanner.motion, calc_dynamic_window, calc_trajectory                 *)
(***************************************************************************)
motion(x, u) ==
    [x     |-> x.x + u[1] * Cos1000(x.yaw) * dt,
     y     |-> x.y + u[1] * Sin1000(x.yaw) * dt,
     yaw   |-> x.yaw + u[2] * dt,
     v     |-> u[1],
     omega |-> u[2]]

\* faulty variant of calc_dynamic_window: the acceleration bounds alone
calc_dynamic_window_unclamped(x) ==
    <<x.v - max_accel * dt, x.v + max_accel * dt,
      x.omega - max_dyaw_rate * dt, x.omega + max_dyaw_rate * dt>>

calc_dynamic_window(x) ==
    <<Max(min_speed, x.v - max_accel * dt),
      Min(max_speed, x.v + max_accel * dt),
      Max(-max_yaw_rate, x.omega - max_dyaw_rate * dt),
      Min(max_yaw_rate, x.omega + max_dyaw_rate * dt)>>

\* lines 91-92, 95: the values the time counter takes, in doubles, while
\* time <= predict_time; the loop body runs once for each of them
RECURSIVE TimeLoop(_, _)
TimeLoop(time, times) ==
    IF FloatLeq(time, predict_time)
    THEN TimeLoop(FloatAdd(time, dt_double), Append(times, time))
    ELSE times

LoopTimes == TimeLoop(<<0, 0>>, <<>>)

\* lines 93-94: one pass of the loop
\* faulty variant of TrajectoryStep: the position is recorded before the step
TrajectoryStepBefore(acc, v, yaw_rate) ==
    LET nx == motion(acc.x, <<v, yaw_rate>>)
    IN  [x |-> nx, trajectory |-> Append(acc.trajectory, <<acc.x.x, acc.x.y>>)]

TrajectoryStep(acc, v, yaw_rate) ==
    LET nx == motion(acc.x, <<v, yaw_rate>>)
    IN  [x |-> nx, trajectory |-> Append(acc.trajectory, <<nx.x, nx.y>>)]

\* the passes lo .. hi of the loop, in order (split in halves to keep the
\* evaluation shallow)
RECURSIVE TrajectoryLoop(_, _, _, _, _)
TrajectoryLoop(acc, v, yaw_rate, lo, hi) ==
    IF lo > hi THEN acc
    ELSE IF lo = hi THEN TrajectoryStep(acc, v, yaw_rate)
    ELSE LET mid == (lo + hi) \div 2
         IN  Only({TrajectoryLoop(first, v, yaw_rate, mid + 1, hi) :
                      first \in {TrajectoryLoop(acc, v, yaw_rate, lo, mid)}})

calc_trajectory(x, v, yaw_rate) ==
    TrajectoryLoop([x |-> x, trajectory |-> <<>>], v, yaw_rate, 1, Len(LoopTimes)).trajectory

(***************************************************************************)
(* DWAPlanner.calc_to_goal_cost, calc_obstacle_cost                        *)
(***************************************************************************)
calc_to_goal_cost(trajectory, goal) ==
    ISqrt(Dist2(trajectory[Len(trajectory)], goal))

\* the position lies exactly on the obstacle point
Coincides(pos, obs) == pos[1] = obs[1] * 1000 /\ pos[2] = obs[2] * 1000

\* lines 106-111: the smallest squared distance between the positions
\* lo .. hi of the trajectory and the obstacles
RECURSIVE MinDist2(_, _, _, _)
MinDist2(trajectory, obs, lo, hi) ==
    IF lo = hi
    THEN LET ds == {Dist2(trajectory[lo], o) : o \in obs}
         IN  CHOOSE d \in ds : \A e \in ds : d <= e
    ELSE LET mid == (lo + hi) \div 2
         IN  Min(MinDist2(trajectory, obs, lo, mid), MinDist2(trajectory, obs, mid + 1, hi))

\* min_dist of line 112, in 1e-3 m: float("inf") when no distance was
\* computed, 0 only for a position exactly on an obstacle, at least one
\* unit otherwise (the square root is monotone, so it is taken of the
\* smallest squared distance)
MinDist(trajectory, obs) ==
    IF obs = {} \/ trajectory = <<>> THEN Infinity
    ELSE IF \E i \in 1..Len(trajectory) : \E o \in obs : Coincides(trajectory[i], o)
         THEN 0
         ELSE Max(1, ISqrt(MinDist2(trajectory, obs, 1, Len(trajectory))))

\* line 112: 1.0 / min_dist if min_dist != float("inf") else float("inf")
ObstacleCostOf(min_dist) ==
    IF min_dist = Infinity THEN Infinity
    ELSE IF min_dist = 0 THEN ZeroDivisionError
    ELSE 1000000 \div min_dist

\* the obstacle points, given in whole metres, in 1e-3 m
ObstaclesMm(obs) == {<<o[1] * 1000, o[2] * 1000>> : o \in obs}

calc_obstacle_cost(trajectory) ==
    ObstacleCostOf(MinDist(trajectory, ObstaclesMm(d_obstacles)))

(***************************************************************************)
(* DWAPlanner.calc_final_input                                             *)
(***************************************************************************)
\* lines 139-141; a sum with an infinite term is infinite
FinalCost(to_goal_cost, speed_cost, obstacle_cost) ==
    IF obstacle_cost = Infinity THEN Infinity
    ELSE to_goal_cost_gain * to_goal_cost + speed_cost_gain * speed_cost
         + obstacle_cost_gain * obstacle_cost

\* line 143: min_cost >= final_cost
Replaces(min_cost, final_cost) == min_cost >= final_cost

\* lines 132-146 for one candidate
Evaluate(x, goal, v, yaw_rate, best) ==
    LET trajectory == calc_trajectory(x, v, yaw_rate)
        obstacle_cost == calc_obstacle_cost(trajectory)
        speed_cost == (max_speed - v) * 10
        final_cost == FinalCost(calc_to_goal_cost(trajectory, goal), speed_cost,
                                obstacle_cost)
    IN  IF obstacle_cost = ZeroDivisionError
        THEN [best EXCEPT !.raised = TRUE]
        ELSE IF Replaces(best.min_cost, final_cost)
        THEN [min_cost |-> final_cost, best_u |-> <<v, yaw_rate>>,
              obstacle_cost |-> obstacle_cost, raised |-> FALSE]
        ELSE best

\* np.arange(start, stop, step): ceil((stop - start) / step) values
\* start, start + step, ...
Arange(start, stop, step) ==
    LET n == IF stop > start THEN (stop - start + step - 1) \div step ELSE 0
    IN  [i \in 1..n |-> start + (i - 1) * step]

\* line 131: the loop body for the yaw rates rates[lo .. hi], in order
\* (split in halves to keep the evaluation shallow); an exception ends it
RECURSIVE YawRateLoop(_, _, _, _, _, _, _)
YawRateLoop(x, goal, v, rates, lo, hi, best) ==
    IF lo > hi \/ best.raised THEN best
    ELSE IF lo = hi THEN Evaluate(x, goal, v, rates[lo], best)
    ELSE LET mid == (lo + hi) \div 2
         IN  Only({YawRateLoop(x, goal, v, rates, mid + 1, hi, first) :
                      first \in {YawRateLoop(x, goal, v, rates, lo, mid, best)}})

\* line 130: the loop over the velocities vs[i], vs[i + 1], ...
RECURSIVE VelocityLoop(_, _, _, _, _, _)
VelocityLoop(x, goal, vs, rates, i, best) ==
    IF i > Len(vs) \/ best.raised THEN best
    ELSE Only({VelocityLoop(x, goal, vs, rates, i + 1, row) :
                  row \in {YawRateLoop(x, goal, vs[i], rates, 1, Len(rates), best)}})

calc_final_input(x, goal) ==
    LET dw == calc_dynamic_window(x)
    IN  VelocityLoop(x, goal, Arange(dw[1], dw[2], v_resolution),
                     Arange(dw[3], dw[4], yaw_rate_resolution), 1,
                     [min_cost |-> Infinity, best_u |-> <<0, 0>>,
                      obstacle_cost |-> Infinity, raised |-> FALSE])

(***************************************************************************)
(* DWAPlanner.find_path                                                    *)
(***************************************************************************)
\* lines 35-36 of is_valid_position, which find_path never calls: the point
\* (1e-3 m) lies within the map
InBounds(pos) ==
    /\ 0 <= pos[1] /\ pos[1] < map_width * 1000
    /\ 0 <= pos[2] /\ pos[2] < map_height * 1000

\* line 175: sqrt((x - gx)^2 + (y - gy)^2) <= 0.5
WithinTolerance(pos, goal) == Dist2(pos, goal) <= Tolerance * Tolerance

\* lines 166-176: one control cycle; it ends the call with the path when the
\* new position is within the tolerance
ControlCycle ==
    /\ d_pc = "PLANNING"
    /\ d_iter < max_iterations
    /\ \E r \in {calc_final_input(d_x, d_goal)} :
        /\ ~r.raised
        /\ \E nx \in {motion(d_x, r.best_u)} :
            /\ d_x' = nx
            /\ d_path' = Append(d_path, <<nx.x, nx.y>>)
            /\ d_pc' = IF WithinTolerance(<<nx.x, nx.y>>, d_goal)
                       THEN "SUCCESS" ELSE "PLANNING"
        /\ d_u' = r.best_u
        /\ d_cost' = <<r.obstacle_cost, r.min_cost>>
    /\ d_iter' = d_iter + 1
    /\ d_dw' = calc_dynamic_window(d_x)
    /\ d_prev' = <<d_x.v, d_x.omega>>
    /\ UNCHANGED <<d_obstacles, d_start, d_goal, max_iterations>>
    /\ UNCHANGED <<avars, tvars, svars>>

\* lines 166-168 when line 112 divides by zero: the exception leaves
\* calc_obstacle_cost, calc_final_input and find_path
ControlCycleRaises ==
    /\ d_pc = "PLANNING"
    /\ d_iter < max_iterations
    /\ calc_final_input(d_x, d_goal).raised
    /\ d_pc' = "RAISED"
    /\ d_iter' = d_iter + 1
    /\ d_dw' = calc_dynamic_window(d_x)
    /\ d_prev' = <<d_x.v, d_x.omega>>
    /\ UNCHANGED <<d_obstacles, d_start, d_goal, max_iterations, d_x, d_path, d_u, d_cost>>
    /\ UNCHANGED <<avars, tvars, svars>>

\* lines 166, 178: the loop is exhausted
ReturnNone ==
    /\ d_pc = "PLANNING"
    /\ d_iter >= max_iterations
    /\ d_pc' = "FAILURE"
    /\ UNCHANGED <<d_obstacles, d_start, d_goal, max_iterations, d_x, d_path, d_iter,
                   d_dw, d_u, d_prev, d_cost>>
    /\ UNCHANGED <<avars, tvars, svars>>

\* no DWA planner in use
DwaOff ==
    /\ d_obstacles = {}
    /\ d_start = <<0, 0, 0>>
    /\ d_goal = <<0, 0>>
    /\ max_iterations = 0
    /\ d_pc = "off"
    /\ d_x = [x |-> 0, y |-> 0, yaw |-> 0, v |-> 0, omega |-> 0]
    /\ d_path = <<>>
    /\ d_iter = 0
    /\ d_dw = <<0, 0, 0, 0>>
    /\ d_u = <<0, 0>>
    /\ d_prev = <<0, 0>>
    /\ d_cost = <<0, 0>>

\* no call of calc_trajectory on its own
TrajOff ==
    /\ t_pc = "off"
    /\ t_x = [x |-> 0, y |-> 0, yaw |-> 0, v |-> 0, omega |-> 0]
    /\ t_u = <<0, 0>>
    /\ t_trajectory = <<>>

\* no simulator in use
SimOff ==
    /\ s_pc = "off"
    /\ path = <<>>
    /\ current_path_index = 0
    /\ frame_count = 0
    /\ paused = FALSE
    /\ car_position = <<0, 0>>
    /\ key_presses = FALSE

(***************************************************************************)
(* Inputs of the A* specification: every obstacle list of at most          *)
(* MaxObstacles cells of the grid, every start and goal in the grid or one *)
(* step outside it.                                                        *)
(***************************************************************************)
Coords == ((-1)..width) \X ((-1)..height)

ObstacleSets(universe) == {S \in SUBSET universe : Cardinality(S) <= MaxObstacles}

AStarIdle ==
    /\ query = <<>>
    /\ open_set = {}
    /\ came_from = EmptyMap
    /\ g_score = EmptyMap
    /\ f_score = EmptyMap
    /\ a_ret = "running"
    /\ a_path = <<>>
    /\ expansions = 0

InitAStar ==
    /\ obstacles \in ObstacleSets(Cells)
    /\ constructed = ~InitRaises(obstacles)
    /\ grid = IF InitRaises(obstacles) THEN ZeroGrid ELSE InitGrid(obstacles)
    /\ a_pc = "call"
    /\ a_start \in Coords
    /\ a_goal \in Coords
    /\ AStarIdle
    /\ DwaOff
    /\ TrajOff
    /\ SimOff

NextAStar ==
    \/ FindPathReject
    \/ FindPathInit
    \/ ReturnPath
    \/ Expand
    \/ ReturnNotFound

SpecAStar == InitAStar /\ [][NextAStar]_vars

(***************************************************************************)
(* Occupancy queries: the grid built from any obstacle list, coordinates   *)
(* outside the grid included, and is_valid_position asked about any cell.  *)
(***************************************************************************)
\* AStar.is_valid_position called by a user of the planner
IsValidQuery ==
    /\ constructed
    /\ a_pc = "idle"
    /\ \E c \in Coords : query' = <<c[1], c[2], is_valid_position(c[1], c[2])>>
    /\ UNCHANGED <<obstacles, constructed, grid, a_pc, a_start, a_goal, open_set,
                   came_from, g_score, f_score, a_ret, a_path, expansions>>
    /\ UNCHANGED <<dvars, tvars, svars>>

InitGridOnly ==
    /\ obstacles \in ObstacleSets(Coords)
    /\ constructed = ~InitRaises(obstacles)
    /\ grid = IF InitRaises(obstacles) THEN ZeroGrid ELSE InitGrid(obstacles)
    /\ a_pc = "idle"
    /\ a_start = <<0, 0>>
    /\ a_goal = <<0, 0>>
    /\ AStarIdle
    /\ DwaOff
    /\ TrajOff
    /\ SimOff

NextGrid == IsValidQuery

SpecGrid == InitGridOnly /\ [][NextGrid]_vars

(***************************************************************************)
(* Inputs of the DWA specification.  find_path starts from lines 163-164:  *)
(* x = [start x, start y, start yaw, 0, 0] and path = [(x, y)].            *)
(***************************************************************************)
DwaObstaclePoints == {<<3, 3>>, <<8, 8>>}

DwaStarts == {<<0, 0, 0>>, <<3000000, 3000000, 0>>, <<4497000, 0, 0>>,
              <<9600000, 5000000, 0>>}

\* the last goal lies on the edge x = map_width, outside the map
DwaGoals == {<<5000, 0>>, <<5000, 3000>>, <<10000, 5000>>}

InitDWA ==
    /\ obstacles = {}
    /\ constructed = TRUE
    /\ grid = ZeroGrid
    /\ a_pc = "off"
    /\ a_start = <<0, 0>>
    /\ a_goal = <<0, 0>>
    /\ AStarIdle
    /\ d_obstacles \in {S \in SUBSET DwaObstaclePoints : Cardinality(S) <= MaxDwaObstacles}
    /\ d_goal \in DwaGoals
    /\ max_iterations \in (0..MaxIterations)
            \cup (IF d_obstacles = {} THEN {DefaultMaxIterations} ELSE {})
    /\ d_pc = "PLANNING"
    /\ d_start \in DwaStarts
    /\ d_x = [x |-> d_start[1], y |-> d_start[2], yaw |-> d_start[3], v |-> 0, omega |-> 0]
    /\ d_path = << <<d_x.x, d_x.y>> >>
    /\ d_iter = 0
    /\ d_dw = <<0, 0, 0, 0>>
    /\ d_u = <<0, 0>>
    /\ d_prev = <<0, 0>>
    /\ d_cost = <<0, 0>>
    /\ TrajOff
    /\ SimOff

NextDWA ==
    \/ ControlCycle
    \/ ControlCycleRaises
    \/ ReturnNone

SpecDWA == InitDWA /\ [][NextDWA]_vars

(***************************************************************************)
(* calc_trajectory called as in line 132, on a copy of the state, for a    *)
(* candidate (v, yaw_rate).                                                *)
(***************************************************************************)
CalcTrajectory ==
    /\ t_pc = "call"
    /\ t_trajectory' = calc_trajectory(t_x, t_u[1], t_u[2])
    /\ t_pc' = "done"
    /\ UNCHANGED <<t_x, t_u>>
    /\ UNCHANGED <<avars, dvars, svars>>

TrajYaws == {0, 4500, 27000}

TrajVelocities == {min_speed, 0, v_resolution, max_speed}

TrajYawRates == {-max_yaw_rate, 0, yaw_rate_resolution, max_yaw_rate}

InitTrajectory ==
    /\ obstacles = {}
    /\ constructed = TRUE
    /\ grid = ZeroGrid
    /\ a_pc = "off"
    /\ a_start = <<0, 0>>
    /\ a_goal = <<0, 0>>
    /\ AStarIdle
    /\ DwaOff
    /\ SimOff
    /\ t_pc = "call"
    /\ \E s \in DwaStarts, yaw \in TrajYaws :
         t_x = [x |-> s[1], y |-> s[2], yaw |-> yaw, v |-> 0, omega |-> 0]
    /\ t_u \in TrajVelocities \X TrajYawRates
    /\ t_trajectory = <<>>

NextTrajectory == CalcTrajectory

SpecTrajectory == InitTrajectory /\ [][NextTrajectory]_vars

(***************************************************************************)
(* PygameSimulator (src/simulation/pygame_simulator.py) with the algorithm *)
(* 'astar': the frame loop of run.  A frame handles the key events, then,  *)
(* unless paused, calls update_dynamic_obstacles, update_path and          *)
(* update_car_position, and draws.  The dynamic obstacles are only drawn:  *)
(* neither the planner nor the car reads them.  The path is a sequence     *)
(* indexed from 1, so the cell path[i] of the code is path[i + 1] here.    *)
(***************************************************************************)
\* line 53
path_update_interval == 100

\* lines 148-168: the index, the car position and the pause flag after
\* update_car_position, for the path p (<<>> for None) and the index idx
update_car_position(p, idx, car, pz) ==
    IF p # <<>> /\ ~pz /\ idx < Len(p) - 1
    THEN IF idx + 1 >= Len(p) - 1
         THEN [index |-> idx + 1, car |-> a_goal, paused |-> TRUE]
         ELSE [index |-> idx + 1, car |-> p[idx + 2], paused |-> pz]
    ELSE [index |-> idx, car |-> car, paused |-> pz]

\* lines 203-206, 172-174: a frame in which update_path only counts
RunFrame ==
    /\ s_pc = "frame"
    /\ ~paused
    /\ frame_count + 1 < path_update_interval
    /\ frame_count' = frame_count + 1
    /\ \E c \in {update_car_position(path, current_path_index, car_position, paused)} :
        /\ current_path_index' = c.index
        /\ car_position' = c.car
        /\ paused' = c.paused
    /\ UNCHANGED <<s_pc, path, key_presses>>
    /\ UNCHANGED <<avars, dvars, tvars>>

\* lines 203-205, 172-177: the frame in which update_path calls
\* self.planner.find_path(self.start, self.goal)
RunFrameFindPath ==
    /\ s_pc = "frame"
    /\ ~paused
    /\ frame_count + 1 >= path_update_interval
    /\ frame_count' = 0
    /\ s_pc' = "find_path"
    /\ a_pc' = "call"
    /\ open_set' = {}
    /\ came_from' = EmptyMap
    /\ g_score' = EmptyMap
    /\ f_score' = EmptyMap
    /\ a_ret' = "running"
    /\ a_path' = <<>>
    /\ expansions' = 0
    /\ UNCHANGED <<obstacles, constructed, grid, query, a_start, a_goal>>
    /\ UNCHANGED <<path, current_path_index, paused, car_position, key_presses>>
    /\ UNCHANGED <<dvars, tvars>>

\* lines 177-184, 206: find_path has returned; the rest of update_path, then
\* update_car_position
RunFrameReplanned ==
    /\ s_pc = "find_path"
    /\ a_pc = "done"
    /\ path' = a_path
    /\ \E c \in {update_car_position(a_path,
                                      IF a_path # <<>> THEN 0 ELSE current_path_index,
                                      car_position, paused)} :
        /\ current_path_index' = c.index
        /\ car_position' = c.car
        /\ paused' = c.paused
    /\ s_pc' = "frame"
    /\ a_pc' = "idle"
    /\ UNCHANGED <<obstacles, constructed, grid, query, a_start, a_goal, open_set,
                   came_from, g_score, f_score, a_ret, a_path, expansions>>
    /\ UNCHANGED <<frame_count, key_presses>>
    /\ UNCHANGED <<dvars, tvars>>

\* lines 196-201, 186-189: the space key, handled at the start of a frame
toggle_pause ==
    /\ s_pc = "frame"
    /\ paused' = ~paused
    /\ key_presses' = TRUE
    /\ UNCHANGED <<s_pc, path, current_path_index, frame_count, car_position>>
    /\ UNCHANGED <<avars, dvars, tvars>>

\* the static obstacles, start and goal of the configuration
SimObstaclePoints == {<<1, 0>>, <<0, 1>>, <<1, 1>>}

SimStarts == {<<0, 0>>, <<1, 1>>}

SimGoals == {<<0, 0>>, <<1, 1>>, <<2, 0>>, <<2, 2>>}

\* lines 20-54, 78: the simulator after construction
InitSim ==
    /\ obstacles \in ObstacleSets(SimObstaclePoints)
    /\ constructed = TRUE
    /\ grid = InitGrid(obstacles)
    /\ a_pc = "idle"
    /\ a_start \in SimStarts
    /\ a_goal \in SimGoals
    /\ AStarIdle
    /\ DwaOff
    /\ TrajOff
    /\ s_pc = "frame"
    /\ path = <<>>
    /\ current_path_index = 0
    /\ frame_count = 0
    /\ paused = FALSE
    /\ car_position = a_start
    /\ key_presses = FALSE

\* the steps of a frame
RunSteps ==
    \/ RunFrame
    \/ RunFrameFindPath
    \/ FindPathReject
    \/ FindPathInit
    \/ ReturnPath
    \/ Expand
    \/ ReturnNotFound
    \/ RunFrameReplanned

NextSim ==
    \/ RunSteps
    \/ toggle_pause

SpecSim == InitSim /\ [][NextSim]_vars

\* line 195: the loop of run goes on frame after frame; the user need not
\* ever press a key
SpecSimFair == SpecSim /\ WF_vars(RunSteps)

(***************************************************************************)
(* Properties of the A* planner.                                           *)
(***************************************************************************)
ValidCells == {c \in Cells : grid[c[2]][c[1]] = 0}

Adjacent(c, d) == Abs(c[1] - d[1]) + Abs(c[2] - d[2]) = 1

\* breadth-first distance over the free cells, -1 when the goal is not reached
RECURSIVE Bfs(_, _, _, _)
Bfs(frontier, seen, target, d) ==
    IF target \in frontier THEN d
    ELSE IF frontier = {} THEN -1
    ELSE LET next == {c \in ValidCells \ seen : \E e \in frontier : Adjacent(c, e)}
         IN  Bfs(next, seen \cup next, target, d + 1)

ShortestDist(s, g) ==
    IF s \in ValidCells /\ g \in ValidCells THEN Bfs({s}, {s}, g, 0) ELSE -1

\* C1: every returned path begins at start, ends at goal, contains only cells
\* for which is_valid_position is true, and consecutive cells differ by
\* exactly one unit in exactly one axis.
C1_PathValid ==
    a_ret = "Path" =>
        /\ Len(a_path) >= 1
        /\ a_path[1] = a_start
        /\ a_path[Len(a_path)] = a_goal
        /\ \A i \in 1..Len(a_path) : is_valid_position(a_path[i][1], a_path[i][2])
        /\ \A i \in 1..(Len(a_path) - 1) :
            \/ /\ Abs(a_path[i][1] - a_path[i + 1][1]) = 1
               /\ a_path[i][2] = a_path[i + 1][2]
            \/ /\ Abs(a_path[i][2] - a_path[i + 1][2]) = 1
               /\ a_path[i][1] = a_path[i + 1][1]

\* a returned path that had to go around obstacles
C1_Witness ==
    /\ a_ret = "Path"
    /\ obstacles # {}
    /\ Len(a_path) > heuristic(a_start, a_goal) + 1

\* C2: whenever a 4-connected path of valid cells connects start to goal,
\* find_path returns a path with shortest-path distance + 1 cells, whichever
\* minimal-f cell each selection returns; Manhattan distance + 1 on an
\* obstacle-free grid, and the single cell start when start equals goal.
C2_Optimal ==
    (a_pc = "done" /\ ShortestDist(a_start, a_goal) >= 0) =>
        /\ a_ret = "Path"
        /\ Len(a_path) = ShortestDist(a_start, a_goal) + 1
        /\ (obstacles = {} => Len(a_path) = heuristic(a_start, a_goal) + 1)
        /\ (a_start = a_goal => a_path = <<a_start>>)

\* a shortest path that is longer than the Manhattan distance, found after a
\* selection among several cells of minimal f_score
C2_Witness ==
    /\ a_pc = "done"
    /\ a_ret = "Path"
    /\ Len(a_path) = ShortestDist(a_start, a_goal) + 1
    /\ Len(a_path) >= heuristic(a_start, a_goal) + 3
    /\ Cardinality(MinCandidates(open_set, f_score)) >= 2

\* C3: for valid start and goal with no connecting path, find_path
\* terminates -- no more cells are expanded than there are free cells -- and
\* returns None, never a path.
C3_NotFoundTerminates ==
    /\ expansions <= Cardinality(ValidCells)
    /\ (a_pc = "search" /\ ShortestDist(a_start, a_goal) < 0) => a_ret = "running"
    /\ (a_pc = "done" /\ ShortestDist(a_start, a_goal) < 0) =>
            (a_ret = "None" /\ a_path = <<>>)

\* the frontier emptied after several expansions without reaching the goal
C3_Witness ==
    /\ a_pc = "done"
    /\ a_start \in ValidCells
    /\ a_goal \in ValidCells
    /\ ShortestDist(a_start, a_goal) < 0
    /\ a_ret = "None"
    /\ open_set = {}
    /\ expansions >= 3

Occupied(c) == c \in Cells /\ grid[c[2]][c[1]] = 1

BadEndpoint(c) == c \notin Cells \/ Occupied(c)

\* C4: when start or goal is out of bounds or occupied, find_path returns
\* None at once: no frontier is created and no cell is expanded.
C4_EndpointRejection ==
    (constructed /\ (BadEndpoint(a_start) \/ BadEndpoint(a_goal))) =>
        /\ a_pc \in {"call", "done"}
        /\ (a_pc = "done" => a_ret = "None" /\ a_path = <<>>)
        /\ open_set = {}
        /\ DOMAIN g_score = {}
        /\ DOMAIN f_score = {}
        /\ DOMAIN came_from = {}
        /\ expansions = 0

\* find_path has returned None for a free start and an occupied goal
C4_Witness ==
    /\ a_pc = "done"
    /\ a_ret = "None"
    /\ a_start \in ValidCells
    /\ Occupied(a_goal)

\* C5: after construction from any obstacle list, is_valid_position(x, y) is
\* true iff (x, y) is inside the grid and not in the obstacle list, and the
\* construction itself succeeds.
C5_OccupancyMatchesInput ==
    /\ constructed
    /\ query # <<>> =>
        (query[3] <=> (<<query[1], query[2]>> \in Cells
                       /\ <<query[1], query[2]>> \notin obstacles))

(***************************************************************************)
(* Properties of the DWA planner.                                          *)
(***************************************************************************)
Terminal == d_pc \in {"SUCCESS", "FAILURE", "RAISED"}

\* the points appended to the path by the control cycles i .. j
NoneWithin(i, j) == \A k \in i..j : ~WithinTolerance(d_path[k], d_goal)

\* C6: without obstacles, from start (0, 0, yaw 0) to the goal (5, 0),
\* find_path ends in SUCCESS: it returns a path whose last position is within
\* 0.5 of the goal after fewer than max_iterations control cycles.
C6_Converges ==
    (/\ d_obstacles = {}
     /\ d_start = <<0, 0, 0>>
     /\ d_goal = <<5000, 0>>
     /\ max_iterations = DefaultMaxIterations
     /\ Terminal) =>
        /\ d_pc = "SUCCESS"
        /\ d_iter < max_iterations
        /\ WithinTolerance(d_path[Len(d_path)], d_goal)

\* C7: in every control cycle the (v, yaw_rate) applied to the state lies in
\* the dynamic window of that cycle, the window lies within the hard limits,
\* and so v and omega stay within the hard limits and change by at most
\* max_accel * dt and max_dyaw_rate * dt per cycle.
C7_WindowContainment ==
    /\ min_speed <= d_x.v /\ d_x.v <= max_speed
    /\ -max_yaw_rate <= d_x.omega /\ d_x.omega <= max_yaw_rate
    /\ (d_iter >= 1 /\ d_pc # "RAISED") =>
        /\ d_dw[1] <= d_u[1] /\ d_u[1] <= d_dw[2]
        /\ d_dw[3] <= d_u[2] /\ d_u[2] <= d_dw[4]
        /\ min_speed <= d_dw[1] /\ d_dw[2] <= max_speed
        /\ -max_yaw_rate <= d_dw[3] /\ d_dw[4] <= max_yaw_rate
        /\ d_x.v = d_u[1] /\ d_x.omega = d_u[2]
        /\ Abs(d_x.v - d_prev[1]) <= max_accel * dt
        /\ Abs(d_x.omega - d_prev[2]) <= max_dyaw_rate * dt

\* a cycle whose window was cut by both hard upper limits
C7_Witness ==
    /\ d_iter >= 1
    /\ d_pc = "PLANNING"
    /\ d_dw[2] = max_speed /\ d_dw[2] < d_prev[1] + max_accel * dt
    /\ d_dw[4] = max_yaw_rate /\ d_dw[4] < d_prev[2] + max_dyaw_rate * dt
    /\ d_x.v = d_u[1] /\ d_x.omega = d_u[2]

\* C8: find_path always ends in one of two outcomes: it returns the path as
\* soon as the position after a cycle is within tolerance, and None exactly
\* when max_iterations cycles passed with no such position; at most
\* max_iterations cycles run, a returned path has cycles + 1 points and only the
\* last appended point is within tolerance.
C8_TwoOutcomes ==
    /\ d_pc \in {"PLANNING", "SUCCESS", "FAILURE"}
    /\ d_iter <= max_iterations
    /\ Len(d_path) = d_iter + 1
    /\ d_pc = "PLANNING" => NoneWithin(2, Len(d_path))
    /\ d_pc = "SUCCESS" =>
        /\ WithinTolerance(d_path[Len(d_path)], d_goal)
        /\ NoneWithin(2, Len(d_path) - 1)
    /\ d_pc = "FAILURE" =>
        /\ d_iter = max_iterations
        /\ NoneWithin(2, Len(d_path))

\* C9: a candidate trajectory with a point exactly on an obstacle gets the
\* cost +infinity and planning goes on; find_path ends by returning a path or
\* None, never by raising an exception.
C9_NeverRaises == d_pc # "RAISED"

\* C10: with an empty obstacle set the obstacle term of every candidate is
\* 0, so the cost of the chosen candidate is its weighted goal distance plus
\* its weighted speed cost, a finite number.
C10_EmptyObstacleTermZero ==
    (d_obstacles = {} /\ d_iter >= 1) =>
        /\ d_cost[1] = 0
        /\ d_cost[2] < Infinity

\* C12: for a goal outside the map bounds, find_path never satisfies the
\* tolerance check in any control cycle and returns None after exactly
\* max_iterations cycles, whatever the start state and the obstacles.
C12_OutOfBoundsGoalNotFound ==
    ~InBounds(d_goal) =>
        /\ d_pc # "SUCCESS"
        /\ NoneWithin(2, Len(d_path))
        /\ d_pc = "FAILURE" => d_iter = max_iterations

(***************************************************************************)
(* Properties of calc_trajectory.                                          *)
(***************************************************************************)
\* the exact sum of two values given as limb pairs
ExactAdd(a, b) == <<a[1] + b[1] + ((a[2] + b[2]) \div Limb), (a[2] + b[2]) % Limb>>

\* the least n with n * d >= p, that is ceil(p / d), for limb pairs p and d
RECURSIVE CeilQuotient(_, _, _, _)
CeilQuotient(p, d, n, nd) ==
    IF FloatLeq(p, nd) THEN n ELSE CeilQuotient(p, d, n + 1, ExactAdd(nd, d))

\* the state after k forward-integration steps of the control u
RECURSIVE Integrate(_, _, _)
Integrate(x, u, k) == IF k = 0 THEN x ELSE motion(Integrate(x, u, k - 1), u)

\* C11: every trajectory produced by calc_trajectory has exactly
\* ceil(predict_time / dt) points, 30 for predict_time = 3.0 and dt = 0.1,
\* and its k-th point is the position after k forward-integration steps of
\* the same candidate (v, yaw_rate).
C11_TrajectoryLength ==
    t_pc = "done" =>
        /\ Len(t_trajectory) = CeilQuotient(predict_time, dt_double, 0, <<0, 0>>)
        /\ Len(t_trajectory) = 30
        /\ \A k \in 1..Len(t_trajectory) :
            LET xk == Integrate(t_x, t_u, k) IN t_trajectory[k] = <<xk.x, xk.y>>

\* a trajectory of a candidate that moves and turns
C11_Witness ==
    /\ t_pc = "done"
    /\ t_u[1] # 0
    /\ t_u[2] # 0
    /\ Len(t_trajectory) = 30
    /\ t_trajectory[1] # <<t_x.x, t_x.y>>
    /\ t_trajectory[30] # t_trajectory[29]

(***************************************************************************)
(* Properties of the simulator.                                            *)
(***************************************************************************)
\* the car stands on the last cell of the path and the simulator is paused
ArrivedAndPaused ==
    /\ path # <<>>
    /\ current_path_index = Len(path) - 1
    /\ car_position = path[Len(path)]
    /\ paused

\* C13: with the algorithm 'astar' and no user pause, once the planner has
\* found a path (of any length) the car eventually reaches the last cell of
\* the path and the simulator auto-pauses there, the periodic replanning
\* notwithstanding; current_path_index always stays within
\* 0 .. len(path) - 1.
C13_CarReachesGoal ==
    /\ [](path # <<>> => current_path_index \in 0..(Len(path) - 1))
    /\ (path # <<>>) ~> (ArrivedAndPaused \/ key_presses)

====
